---- MODULE Spec2Model ----
(***************************************************************************)
(* Model of the PDF outline extractor: PDFProcessor._group_words_into_     *)
(* blocks (pdf_processor.py) and HierarchyBuilder.build                    *)
(* (hierarchy_builder.py).                                                 *)
(*                                                                         *)
(* Representation.                                                         *)
(*  - A Python str is the sequence of its code points, so that strip,      *)
(*    split, isupper, isdigit, lower, replace and the two regular          *)
(*    expressions are computed character by character.                     *)
(*  - In the HierarchyBuilder part coordinates, page sizes and font sizes  *)
(*    are whole units.  For whole numbers the float products of the code   *)
(*    (h*0.08, h*0.92, w*0.15, s*1.5, s*1.2) compare exactly like the      *)
(*    rational products, which the model computes by cross-multiplying.    *)
(*  - In the PDFProcessor part the coordinates and font sizes of the words *)
(*    are in 64ths of a unit (6432 is 100.5).  Every such number is a      *)
(*    float, the differences of two of them are computed exactly, and the  *)
(*    float product size * 1.6 compares with a gap like the rational       *)
(*    product.  The font size of a block, the result of round(size, 2), is *)
(*    in hundredths of a unit.                                             *)
(***************************************************************************)
EXTENDS Integers, Sequences, FiniteSets, TLC

VARIABLES
    pc,                  \* position in the operation being run
    processed_pages,     \* build: the argument
    core_content_blocks, \* build: local
    title,               \* build: local
    heading_candidates,  \* build: local
    outline,             \* build: local
    result,              \* build: the returned value
    words,               \* _group_words_into_blocks: the argument
    page_num,            \* _group_words_into_blocks: the argument
    sorted_words,        \* _group_words_into_blocks: local
    lines,               \* _group_words_into_blocks: local
    blocks               \* _group_words_into_blocks: local, then the returned value

vars == <<pc, processed_pages, core_content_blocks, title, heading_candidates,
          outline, result, words, page_num, sorted_words, lines, blocks>>

buildVars == <<processed_pages, core_content_blocks, title, heading_candidates,
               outline, result>>

groupVars == <<words, page_num, sorted_words, lines, blocks>>

----------------------------------------------------------------------------
(* Python str operations.  A str is the sequence of its code points. *)

\* the ASCII digits and letters, in the order of their code points
DigitChars == <<"0","1","2","3","4","5","6","7","8","9">>

UpperChars == <<"A","B","C","D","E","F","G","H","I","J","K","L","M",
                "N","O","P","Q","R","S","T","U","V","W","X","Y","Z">>

LowerChars == <<"a","b","c","d","e","f","g","h","i","j","k","l","m",
                "n","o","p","q","r","s","t","u","v","w","x","y","z">>

\* the index of ch in the sequence chars
IndexIn(chars, ch) == CHOOSE i \in DOMAIN chars : chars[i] = ch

\* the code point of a character the texts of this module are written with
Ord(ch) ==
    CASE ch = "\n" -> 10
      [] ch = " " -> 32
      [] ch = "-" -> 45
      [] ch = "." -> 46
      [] \E i \in DOMAIN DigitChars : DigitChars[i] = ch
            -> 47 + IndexIn(DigitChars, ch)
      [] \E i \in DOMAIN UpperChars : UpperChars[i] = ch
            -> 64 + IndexIn(UpperChars, ch)
      [] \E i \in DOMAIN LowerChars : LowerChars[i] = ch
            -> 96 + IndexIn(LowerChars, ch)

\* the str written as the tuple of its characters
Str(chars) == [i \in DOMAIN chars |-> Ord(chars[i])]

Range(s) == {s[i] : i \in DOMAIN s}

\* The character classes below are those of the interpreter's Unicode
\* database, as runs <<first, last, step>> of code points.

\* the characters str.isspace() holds of: the whitespace of str.strip(),
\* str.split() and the regex class \s
SpaceRuns ==
    { <<9, 13, 1>>, <<28, 32, 1>>, <<133, 133, 1>>, <<160, 160, 1>>,
      <<5760, 5760, 1>>, <<8192, 8202, 1>>, <<8232, 8233, 1>>,
      <<8239, 8239, 1>>, <<8287, 8287, 1>>, <<12288, 12288, 1>> }

\* the characters str.isdecimal() holds of: the regex class \d
DecimalRuns ==
    { <<48, 57, 1>>, <<1632, 1641, 1>>, <<1776, 1785, 1>>, <<1984, 1993, 1>>,
      <<2406, 2415, 1>>, <<2534, 2543, 1>>, <<2662, 2671, 1>>,
      <<2790, 2799, 1>>, <<2918, 2927, 1>>, <<3046, 3055, 1>>,
      <<3174, 3183, 1>>, <<3302, 3311, 1>>, <<3430, 3439, 1>>,
      <<3558, 3567, 1>>, <<3664, 3673, 1>>, <<3792, 3801, 1>>,
      <<3872, 3881, 1>>, <<4160, 4169, 1>>, <<4240, 4249, 1>>,
      <<6112, 6121, 1>>, <<6160, 6169, 1>>, <<6470, 6479, 1>>,
      <<6608, 6617, 1>>, <<6784, 6793, 1>>, <<6800, 6809, 1>>,
      <<6992, 7001, 1>>, <<7088, 7097, 1>>, <<7232, 7241, 1>>,
      <<7248, 7257, 1>>, <<42528, 42537, 1>>, <<43216, 43225, 1>>,
      <<43264, 43273, 1>>, <<43472, 43481, 1>>, <<43504, 43513, 1>>,
      <<43600, 43609, 1>>, <<44016, 44025, 1>>, <<65296, 65305, 1>>,
      <<66720, 66729, 1>>, <<68912, 68921, 1>>, <<69734, 69743, 1>>,
      <<69872, 69881, 1>>, <<69942, 69951, 1>>, <<70096, 70105, 1>>,
      <<70384, 70393, 1>>, <<70736, 70745, 1>>, <<70864, 70873, 1>>,
      <<71248, 71257, 1>>, <<71360, 71369, 1>>, <<71472, 71481, 1>>,
      <<71904, 71913, 1>>, <<72016, 72025, 1>>, <<72784, 72793, 1>>,
      <<73040, 73049, 1>>, <<73120, 73129, 1>>, <<92768, 92777, 1>>,
      <<92864, 92873, 1>>, <<93008, 93017, 1>>, <<120782, 120831, 1>>,
      <<123200, 123209, 1>>, <<123632, 123641, 1>>, <<125264, 125273, 1>>,
      <<130032, 130041, 1>> }

\* the characters str.isdigit() holds of and str.isdecimal() does not
OtherDigitRuns ==
    { <<178, 179, 1>>, <<185, 185, 1>>, <<4969, 4977, 1>>, <<6618, 6618, 1>>,
      <<8304, 8304, 1>>, <<8308, 8313, 1>>, <<8320, 8329, 1>>,
      <<9312, 9320, 1>>, <<9332, 9340, 1>>, <<9352, 9360, 1>>,
      <<9450, 9450, 1>>, <<9461, 9469, 1>>, <<9471, 9471, 1>>,
      <<10102, 10110, 1>>, <<10112, 10120, 1>>, <<10122, 10130, 1>>,
      <<68160, 68163, 1>>, <<69216, 69224, 1>>, <<69714, 69722, 1>>,
      <<127232, 127242, 1>> }

\* the characters str.isupper() holds of
UpperRuns ==
    { <<65, 90, 1>>, <<192, 214, 1>>, <<216, 222, 1>>, <<256, 310, 2>>,
      <<313, 327, 2>>, <<330, 374, 2>>, <<376, 377, 1>>, <<379, 381, 2>>,
      <<385, 386, 1>>, <<388, 388, 1>>, <<390, 391, 1>>, <<393, 395, 1>>,
      <<398, 401, 1>>, <<403, 404, 1>>, <<406, 408, 1>>, <<412, 413, 1>>,
      <<415, 416, 1>>, <<418, 420, 2>>, <<422, 423, 1>>, <<425, 425, 1>>,
      <<428, 428, 1>>, <<430, 431, 1>>, <<433, 435, 1>>, <<437, 437, 1>>,
      <<439, 440, 1>>, <<444, 444, 1>>, <<452, 452, 1>>, <<455, 455, 1>>,
      <<458, 458, 1>>, <<461, 475, 2>>, <<478, 494, 2>>, <<497, 497, 1>>,
      <<500, 500, 1>>, <<502, 504, 1>>, <<506, 562, 2>>, <<570, 571, 1>>,
      <<573, 574, 1>>, <<577, 577, 1>>, <<579, 582, 1>>, <<584, 590, 2>>,
      <<880, 882, 2>>, <<886, 886, 1>>, <<895, 895, 1>>, <<902, 902, 1>>,
      <<904, 906, 1>>, <<908, 908, 1>>, <<910, 911, 1>>, <<913, 929, 1>>,
      <<931, 939, 1>>, <<975, 975, 1>>, <<978, 980, 1>>, <<984, 1006, 2>>,
      <<1012, 1012, 1>>, <<1015, 1015, 1>>, <<1017, 1018, 1>>,
      <<1021, 1071, 1>>, <<1120, 1152, 2>>, <<1162, 1214, 2>>,
      <<1216, 1217, 1>>, <<1219, 1229, 2>>, <<1232, 1326, 2>>,
      <<1329, 1366, 1>>, <<4256, 4293, 1>>, <<4295, 4295, 1>>,
      <<4301, 4301, 1>>, <<5024, 5109, 1>>, <<7312, 7354, 1>>,
      <<7357, 7359, 1>>, <<7680, 7828, 2>>, <<7838, 7934, 2>>,
      <<7944, 7951, 1>>, <<7960, 7965, 1>>, <<7976, 7983, 1>>,
      <<7992, 7999, 1>>, <<8008, 8013, 1>>, <<8025, 8031, 2>>,
      <<8040, 8047, 1>>, <<8120, 8123, 1>>, <<8136, 8139, 1>>,
      <<8152, 8155, 1>>, <<8168, 8172, 1>>, <<8184, 8187, 1>>,
      <<8450, 8450, 1>>, <<8455, 8455, 1>>, <<8459, 8461, 1>>,
      <<8464, 8466, 1>>, <<8469, 8469, 1>>, <<8473, 8477, 1>>,
      <<8484, 8488, 2>>, <<8490, 8493, 1>>, <<8496, 8499, 1>>,
      <<8510, 8511, 1>>, <<8517, 8517, 1>>, <<8544, 8559, 1>>,
      <<8579, 8579, 1>>, <<9398, 9423, 1>>, <<11264, 11311, 1>>,
      <<11360, 11360, 1>>, <<11362, 11364, 1>>, <<11367, 11371, 2>>,
      <<11373, 11376, 1>>, <<11378, 11378, 1>>, <<11381, 11381, 1>>,
      <<11390, 11392, 1>>, <<11394, 11490, 2>>, <<11499, 11501, 2>>,
      <<11506, 11506, 1>>, <<42560, 42604, 2>>, <<42624, 42650, 2>>,
      <<42786, 42798, 2>>, <<42802, 42862, 2>>, <<42873, 42875, 2>>,
      <<42877, 42878, 1>>, <<42880, 42886, 2>>, <<42891, 42893, 2>>,
      <<42896, 42898, 2>>, <<42902, 42920, 2>>, <<42922, 42926, 1>>,
      <<42928, 42932, 1>>, <<42934, 42946, 2>>, <<42948, 42951, 1>>,
      <<42953, 42953, 1>>, <<42960, 42960, 1>>, <<42966, 42968, 2>>,
      <<42997, 42997, 1>>, <<65313, 65338, 1>>, <<66560, 66599, 1>>,
      <<66736, 66771, 1>>, <<66928, 66938, 1>>, <<66940, 66954, 1>>,
      <<66956, 66962, 1>>, <<66964, 66965, 1>>, <<68736, 68786, 1>>,
      <<71840, 71871, 1>>, <<93760, 93791, 1>>, <<119808, 119833, 1>>,
      <<119860, 119885, 1>>, <<119912, 119937, 1>>, <<119964, 119964, 1>>,
      <<119966, 119967, 1>>, <<119970, 119970, 1>>, <<119973, 119974, 1>>,
      <<119977, 119980, 1>>, <<119982, 119989, 1>>, <<120016, 120041, 1>>,
      <<120068, 120069, 1>>, <<120071, 120074, 1>>, <<120077, 120084, 1>>,
      <<120086, 120092, 1>>, <<120120, 120121, 1>>, <<120123, 120126, 1>>,
      <<120128, 120132, 1>>, <<120134, 120134, 1>>, <<120138, 120144, 1>>,
      <<120172, 120197, 1>>, <<120224, 120249, 1>>, <<120276, 120301, 1>>,
      <<120328, 120353, 1>>, <<120380, 120405, 1>>, <<120432, 120457, 1>>,
      <<120488, 120512, 1>>, <<120546, 120570, 1>>, <<120604, 120628, 1>>,
      <<120662, 120686, 1>>, <<120720, 120744, 1>>, <<120778, 120778, 1>>,
      <<125184, 125217, 1>>, <<127280, 127305, 1>>, <<127312, 127337, 1>>,
      <<127344, 127369, 1>> }

\* the characters str.islower() holds of
LowerRuns ==
    { <<97, 122, 1>>, <<170, 170, 1>>, <<181, 181, 1>>, <<186, 186, 1>>,
      <<223, 246, 1>>, <<248, 255, 1>>, <<257, 309, 2>>, <<311, 312, 1>>,
      <<314, 326, 2>>, <<328, 329, 1>>, <<331, 375, 2>>, <<378, 380, 2>>,
      <<382, 384, 1>>, <<387, 389, 2>>, <<392, 392, 1>>, <<396, 397, 1>>,
      <<402, 402, 1>>, <<405, 405, 1>>, <<409, 411, 1>>, <<414, 414, 1>>,
      <<417, 421, 2>>, <<424, 424, 1>>, <<426, 427, 1>>, <<429, 429, 1>>,
      <<432, 432, 1>>, <<436, 438, 2>>, <<441, 442, 1>>, <<445, 447, 1>>,
      <<454, 454, 1>>, <<457, 457, 1>>, <<460, 474, 2>>, <<476, 477, 1>>,
      <<479, 493, 2>>, <<495, 496, 1>>, <<499, 501, 2>>, <<505, 561, 2>>,
      <<563, 569, 1>>, <<572, 572, 1>>, <<575, 576, 1>>, <<578, 578, 1>>,
      <<583, 589, 2>>, <<591, 659, 1>>, <<661, 696, 1>>, <<704, 705, 1>>,
      <<736, 740, 1>>, <<837, 837, 1>>, <<881, 883, 2>>, <<887, 887, 1>>,
      <<890, 893, 1>>, <<912, 912, 1>>, <<940, 974, 1>>, <<976, 977, 1>>,
      <<981, 983, 1>>, <<985, 1005, 2>>, <<1007, 1011, 1>>,
      <<1013, 1013, 1>>, <<1016, 1016, 1>>, <<1019, 1020, 1>>,
      <<1072, 1119, 1>>, <<1121, 1153, 2>>, <<1163, 1215, 2>>,
      <<1218, 1228, 2>>, <<1230, 1231, 1>>, <<1233, 1327, 2>>,
      <<1376, 1416, 1>>, <<4304, 4346, 1>>, <<4349, 4351, 1>>,
      <<5112, 5117, 1>>, <<7296, 7304, 1>>, <<7424, 7615, 1>>,
      <<7681, 7827, 2>>, <<7829, 7837, 1>>, <<7839, 7933, 2>>,
      <<7935, 7943, 1>>, <<7952, 7957, 1>>, <<7968, 7975, 1>>,
      <<7984, 7991, 1>>, <<8000, 8005, 1>>, <<8016, 8023, 1>>,
      <<8032, 8039, 1>>, <<8048, 8061, 1>>, <<8064, 8071, 1>>,
      <<8080, 8087, 1>>, <<8096, 8103, 1>>, <<8112, 8116, 1>>,
      <<8118, 8119, 1>>, <<8126, 8126, 1>>, <<8130, 8132, 1>>,
      <<8134, 8135, 1>>, <<8144, 8147, 1>>, <<8150, 8151, 1>>,
      <<8160, 8167, 1>>, <<8178, 8180, 1>>, <<8182, 8183, 1>>,
      <<8305, 8305, 1>>, <<8319, 8319, 1>>, <<8336, 8348, 1>>,
      <<8458, 8458, 1>>, <<8462, 8463, 1>>, <<8467, 8467, 1>>,
      <<8495, 8495, 1>>, <<8500, 8500, 1>>, <<8505, 8505, 1>>,
      <<8508, 8509, 1>>, <<8518, 8521, 1>>, <<8526, 8526, 1>>,
      <<8560, 8575, 1>>, <<8580, 8580, 1>>, <<9424, 9449, 1>>,
      <<11312, 11359, 1>>, <<11361, 11361, 1>>, <<11365, 11366, 1>>,
      <<11368, 11372, 2>>, <<11377, 11377, 1>>, <<11379, 11380, 1>>,
      <<11382, 11389, 1>>, <<11393, 11489, 2>>, <<11491, 11492, 1>>,
      <<11500, 11502, 2>>, <<11507, 11507, 1>>, <<11520, 11557, 1>>,
      <<11559, 11559, 1>>, <<11565, 11565, 1>>, <<42561, 42605, 2>>,
      <<42625, 42649, 2>>, <<42651, 42653, 1>>, <<42787, 42797, 2>>,
      <<42799, 42801, 1>>, <<42803, 42861, 2>>, <<42863, 42872, 1>>,
      <<42874, 42876, 2>>, <<42879, 42887, 2>>, <<42892, 42894, 2>>,
      <<42897, 42897, 1>>, <<42899, 42901, 1>>, <<42903, 42921, 2>>,
      <<42927, 42927, 1>>, <<42933, 42947, 2>>, <<42952, 42954, 2>>,
      <<42961, 42969, 2>>, <<42998, 42998, 1>>, <<43000, 43002, 1>>,
      <<43824, 43866, 1>>, <<43868, 43880, 1>>, <<43888, 43967, 1>>,
      <<64256, 64262, 1>>, <<64275, 64279, 1>>, <<65345, 65370, 1>>,
      <<66600, 66639, 1>>, <<66776, 66811, 1>>, <<66967, 66977, 1>>,
      <<66979, 66993, 1>>, <<66995, 67001, 1>>, <<67003, 67004, 1>>,
      <<67456, 67456, 1>>, <<67459, 67461, 1>>, <<67463, 67504, 1>>,
      <<67506, 67514, 1>>, <<68800, 68850, 1>>, <<71872, 71903, 1>>,
      <<93792, 93823, 1>>, <<119834, 119859, 1>>, <<119886, 119892, 1>>,
      <<119894, 119911, 1>>, <<119938, 119963, 1>>, <<119990, 119993, 1>>,
      <<119995, 119995, 1>>, <<119997, 120003, 1>>, <<120005, 120015, 1>>,
      <<120042, 120067, 1>>, <<120094, 120119, 1>>, <<120146, 120171, 1>>,
      <<120198, 120223, 1>>, <<120250, 120275, 1>>, <<120302, 120327, 1>>,
      <<120354, 120379, 1>>, <<120406, 120431, 1>>, <<120458, 120485, 1>>,
      <<120514, 120538, 1>>, <<120540, 120545, 1>>, <<120572, 120596, 1>>,
      <<120598, 120603, 1>>, <<120630, 120654, 1>>, <<120656, 120661, 1>>,
      <<120688, 120712, 1>>, <<120714, 120719, 1>>, <<120746, 120770, 1>>,
      <<120772, 120777, 1>>, <<120779, 120779, 1>>, <<122624, 122633, 1>>,
      <<122635, 122654, 1>>, <<125218, 125251, 1>> }

\* the titlecase characters (category Lt)
TitleRuns ==
    { <<453, 453, 1>>, <<456, 456, 1>>, <<459, 459, 1>>, <<498, 498, 1>>,
      <<8072, 8079, 1>>, <<8088, 8095, 1>>, <<8104, 8111, 1>>,
      <<8124, 8124, 1>>, <<8140, 8140, 1>>, <<8188, 8188, 1>> }

\* c is in one of the runs
InRuns(c, runs) ==
    \E r \in runs : r[1] <= c /\ c <= r[2] /\ (c - r[1]) % r[3] = 0

IsSpaceChar(c) == InRuns(c, SpaceRuns)

\* the regex class \d
IsDecimalChar(c) == InRuns(c, DecimalRuns)

\* str.isdigit() of one character
IsDigitChar(c) == IsDecimalChar(c) \/ InRuns(c, OtherDigitRuns)

IsUpperChar(c) == InRuns(c, UpperRuns)

IsLowerChar(c) == InRuns(c, LowerRuns)

IsTitleChar(c) == InRuns(c, TitleRuns)

\* str.lower() turns the character c into the ASCII lowercase letter a.  The
\* characters that str.lower() turns into an ASCII letter are the letter, its
\* capital and, for k, U+212A KELVIN SIGN; the only character it turns into
\* more than one character is U+0130, which gives "i" and U+0307.
LowersTo(c, a) == c = a \/ c = a - 32 \/ (a = 107 /\ c = 8490)

\* pat in s.lower(), for a pattern of ASCII lowercase letters other than i
LowerContains(s, pat) ==
    \E i \in 0..(Len(s) - Len(pat)) :
        \A j \in 1..Len(pat) : LowersTo(s[i + j], pat[j])

\* str.strip()
StrStrip(s) ==
    LET nonSpace == {i \in DOMAIN s : ~IsSpaceChar(s[i])}
    IN  IF nonSpace = {} THEN <<>>
        ELSE LET lo == CHOOSE i \in nonSpace : \A j \in nonSpace : i <= j
                 hi == CHOOSE i \in nonSpace : \A j \in nonSpace : j <= i
             IN  SubSeq(s, lo, hi)

\* len(s.split()): the number of maximal runs of non-whitespace characters
SplitCount(s) ==
    Cardinality({i \in DOMAIN s :
        /\ ~IsSpaceChar(s[i])
        /\ (i = 1 \/ IsSpaceChar(s[i - 1]))})

\* str.isupper(): an uppercase character, and no lowercase or titlecase one
StrIsUpper(s) ==
    /\ \E i \in DOMAIN s : IsUpperChar(s[i])
    /\ \A i \in DOMAIN s : ~IsLowerChar(s[i]) /\ ~IsTitleChar(s[i])

\* str.isdigit()
StrIsDigit(s) ==
    /\ Len(s) > 0
    /\ \A i \in DOMAIN s : IsDigitChar(s[i])

\* s.replace("\n", " ")
ReplaceNewline(s) == [i \in DOMAIN s |-> IF s[i] = 10 THEN 32 ELSE s[i]]

\* the index after the run of \d characters that starts at i
RECURSIVE SkipDigits(_, _)
SkipDigits(s, i) ==
    IF i <= Len(s) /\ IsDecimalChar(s[i]) THEN SkipDigits(s, i + 1) ELSE i

\* the index after the longest (\.\d+)* that starts at i
RECURSIVE SkipDotGroups(_, _)
SkipDotGroups(s, i) ==
    IF i + 1 <= Len(s) /\ s[i] = 46 /\ IsDecimalChar(s[i + 1])
    THEN SkipDotGroups(s, SkipDigits(s, i + 1))
    ELSE i

\* bool(re.match(r'^\d+(\.\d+)*\s+', text))
MatchNumberPrefix(text) ==
    LET afterDigits == SkipDigits(text, 1)
        afterGroups == SkipDotGroups(text, afterDigits)
    IN  /\ afterDigits > 1
        /\ afterGroups <= Len(text)
        /\ IsSpaceChar(text[afterGroups])

\* the index before the run of characters of the class that ends at i
RECURSIVE BackSpaces(_, _)
BackSpaces(s, i) ==
    IF i >= 1 /\ IsSpaceChar(s[i]) THEN BackSpaces(s, i - 1) ELSE i

RECURSIVE BackDigits(_, _)
BackDigits(s, i) ==
    IF i >= 1 /\ IsDecimalChar(s[i]) THEN BackDigits(s, i - 1) ELSE i

RECURSIVE BackDots(_, _)
BackDots(s, i) ==
    IF i >= 1 /\ s[i] = 46 THEN BackDots(s, i - 1) ELSE i

----------------------------------------------------------------------------
(* hierarchy_builder.py *)

\* "Untitled Document"
UntitledDocument ==
    Str(<<"U","n","t","i","t","l","e","d"," ","D","o","c","u","m","e","n","t">>)

\* "No Content Found"
NoContentFound ==
    Str(<<"N","o"," ","C","o","n","t","e","n","t"," ","F","o","u","n","d">>)

\* "bold" and "black", the substrings looked for in the lowercased font name
BoldMark == Str(<<"b","o","l","d">>)

BlackMark == Str(<<"b","l","a","c","k">>)

Abs(x) == IF x < 0 THEN 0 - x ELSE x

\* dict.get(key, default)
Get(d, key, default) == IF key \in DOMAIN d THEN d[key] ELSE default

\* a faulty variant of IsHeaderOrFooter that forgets the footer band
IsHeaderOnly(block, page_height) == block.bbox[2] * 100 < page_height * 8

\* y_pos < page_height * 0.08 or y_pos > page_height * 0.92
IsHeaderOrFooter(block, page_height) ==
    LET y_pos == block.bbox[2]
    IN  y_pos * 100 < page_height * 8 \/ y_pos * 100 > page_height * 92

\* bool(re.search(r'\.{4,}\s*\d+\s*$', text)), read from the end of the text:
\* trailing whitespace, a run of digits, whitespace, then four dots or more
IsTocEntry(text) ==
    LET e1 == BackSpaces(text, Len(text))
        e2 == BackDigits(text, e1)
        e3 == BackSpaces(text, e2)
        e4 == BackDots(text, e3)
    IN  e2 < e1 /\ e3 - e4 >= 4

\* abs(((x0 + x1) / 2) - (page_width / 2)) < (page_width * 0.15), times 20
IsCentered(bbox, page_width) ==
    Abs((bbox[1] + bbox[3]) - page_width) * 10 < page_width * 3

\* "bold" in font_name or "black" in font_name, font_name being the lowercased
\* name
IsBoldName(font_name) ==
    \/ LowerContains(font_name, BoldMark)
    \/ LowerContains(font_name, BlackMark)

GetBlockFeatures(block, page_width) ==
    LET text == StrStrip(block.text)
        word_count == SplitCount(text)
    IN  [text               |-> text,
         font_size          |-> Get(block, "font_size", 0),
         is_bold            |-> IsBoldName(Get(block, "font_name", <<>>)),
         is_all_caps        |-> StrIsUpper(text) /\ word_count > 0,
         starts_with_number |-> MatchNumberPrefix(text),
         is_centered        |-> IsCentered(block.bbox, page_width),
         word_count         |-> word_count,
         is_toc             |-> IsTocEntry(text),
         original_block     |-> block]

IsPotentialHeading(features) ==
    IF \/ features.text = <<>>
       \/ features.word_count > 20
       \/ features.is_toc
       \/ StrIsDigit(features.text)
    THEN FALSE
    ELSE \/ features.font_size > 14 /\ features.word_count < 15
         \/ features.starts_with_number /\ features.word_count < 15
         \/ features.is_bold /\ features.word_count < 15
         \/ features.is_all_caps /\ features.font_size > 11
                /\ features.word_count < 15

\* the score of _extract_title, times 100: font_size, *1.5 if centered,
\* *1.2 if bold
TitleScore(features) ==
    features.font_size * (IF features.is_centered THEN 15 ELSE 10)
                       * (IF features.is_bold THEN 12 ELSE 10)

\* the list `candidates` of _extract_title: (score, text) pairs in input order
RECURSIVE TitleCandidates(_, _)
TitleCandidates(first_page_blocks, page_width) ==
    IF first_page_blocks = <<>> THEN <<>>
    ELSE LET block == Head(first_page_blocks)
             rest == TitleCandidates(Tail(first_page_blocks), page_width)
             features == GetBlockFeatures(block, page_width)
         IN  IF block.bbox[2] > 400 THEN rest
             ELSE IF features.text = <<>> \/ features.word_count > 25 THEN rest
             ELSE <<<<TitleScore(features), features.text>>>> \o rest

\* a faulty variant of MaxByScore that keeps the last item of maximal key
RECURSIVE MaxByScoreLast(_, _)
MaxByScoreLast(best, rest) ==
    IF rest = <<>> THEN best
    ELSE MaxByScoreLast(IF Head(rest)[1] >= best[1] THEN Head(rest) ELSE best,
                        Tail(rest))

\* max(candidates, key=lambda item: item[0]): the first item of maximal key
RECURSIVE MaxByScore(_, _)
MaxByScore(best, rest) ==
    IF rest = <<>> THEN best
    ELSE MaxByScore(IF Head(rest)[1] > best[1] THEN Head(rest) ELSE best,
                    Tail(rest))

ExtractTitle(text_blocks, page_width) ==
    LET first_page_blocks ==
            SelectSeq(text_blocks,
                      LAMBDA b : Get(b, "page_num", 1) = 1
                                 /\ StrStrip(b.text) # <<>>)
        candidates == TitleCandidates(first_page_blocks, page_width)
    IN  IF first_page_blocks = <<>> THEN UntitledDocument
        ELSE IF candidates # <<>>
             THEN MaxByScore(Head(candidates), Tail(candidates))[2]
             ELSE UntitledDocument

\* f"H{i}" for the level numbers that can arise
LevelName(i) == <<"H1", "H2", "H3", "H4", "H5">>[i]

Min(a, b) == IF a < b THEN a ELSE b

\* np.unique(font_sizes), as a set
UniqueSizes(cands) ==
    {cands[i].font_size : i \in DOMAIN cands}

\* KMeans(n_clusters, random_state=42, n_init='auto').fit(font_sizes).labels_,
\* as a map from font size to cluster.  The library is not part of the
\* sources; what its seeded run leaves in labels_ is one of the partitions of
\* the sizes into n_clusters non-empty clusters, each a range of sizes (in one
\* dimension the points nearest to a centre form a range).  With as many
\* clusters as distinct sizes there is only one such partition.  Clusters are
\* numbered here by ascending size; the code never reads the numbering.
KMeansLabels(unique_sizes, n_clusters) ==
    {lab \in [unique_sizes -> 1..n_clusters] :
        /\ \A c \in 1..n_clusters : \E s \in unique_sizes : lab[s] = c
        /\ \A s, t \in unique_sizes : s < t => lab[s] <= lab[t]}

RECURSIVE SumSizes(_, _, _)
SumSizes(cands, lab, c) ==
    IF cands = <<>> THEN 0
    ELSE (IF lab[Head(cands).font_size] = c
          THEN Head(cands).font_size ELSE 0)
         + SumSizes(Tail(cands), lab, c)

\* kmeans.cluster_centers_[c][0], the mean of the sizes labelled c, as the
\* fraction <<sum, count>>
ClusterCenter(cands, lab, c) ==
    <<SumSizes(cands, lab, c),
      Cardinality({i \in DOMAIN cands :
                      lab[cands[i].font_size] = c})>>

\* a >= b for two fractions of positive denominator
CenterGeq(a, b) == a[1] * b[2] >= b[1] * a[2]

\* a faulty variant of SizeToLevel that numbers the centres sorted ascending
SizeToLevelAscending(cands, lab, n_clusters, c) ==
    LevelName(Cardinality({d \in 1..n_clusters :
        CenterGeq(ClusterCenter(cands, lab, c),
                  ClusterCenter(cands, lab, d))}))

\* size_to_level[cluster_center]: the centres sorted descending are numbered
\* from 1; a dict keeps the last number given to a key, so a centre gets the
\* count of the centres that are not smaller
SizeToLevel(cands, lab, n_clusters, c) ==
    LevelName(Cardinality({d \in 1..n_clusters :
        CenterGeq(ClusterCenter(cands, lab, d),
                  ClusterCenter(cands, lab, c))}))

\* _assign_heading_levels: the set of the lists it can return (one list for
\* each outcome of the clustering)
AssignHeadingLevels(cands) ==
    IF cands = <<>> THEN {<<>>}
    ELSE IF Len(cands) = 1
    THEN {<<[level |-> "H1",
             text  |-> cands[1].text,
             page  |-> cands[1].original_block.page_num]>>}
    ELSE LET unique_sizes == UniqueSizes(cands)
             n_clusters == Min(Cardinality(unique_sizes), 3)
         IN  IF n_clusters = 0 THEN {<<>>}
             ELSE {[i \in DOMAIN cands |->
                       [level |-> SizeToLevel(cands, lab, n_clusters,
                                              lab[cands[i].font_size]),
                        text  |-> cands[i].text,
                        page  |-> cands[i].original_block.page_num,
                        y_pos |-> cands[i].original_block.bbox[2]]] :
                   lab \in KMeansLabels(unique_sizes, n_clusters)}

\* a faulty variant of KeyLeq that sorts by the vertical position alone
KeyLeqByTop(a, b) == a.y_pos <= b.y_pos

\* the sort key of build: (x['page'], x['y_pos']); tuples compare
\* lexicographically
KeyLeq(a, b) == a.page < b.page \/ (a.page = b.page /\ a.y_pos <= b.y_pos)

\* list.sort(key=...): a stable sort, as insertion from the left
RECURSIVE InsertSorted(_, _)
InsertSorted(sorted, x) ==
    IF sorted = <<>> THEN <<x>>
    ELSE IF KeyLeq(sorted[Len(sorted)], x) THEN Append(sorted, x)
    ELSE Append(InsertSorted(SubSeq(sorted, 1, Len(sorted) - 1), x),
                sorted[Len(sorted)])

RECURSIVE SortOutline(_)
SortOutline(items) ==
    IF items = <<>> THEN <<>>
    ELSE InsertSorted(SortOutline(SubSeq(items, 1, Len(items) - 1)),
                      items[Len(items)])

\* del item['y_pos']
DelYPos(item) == [k \in DOMAIN item \ {"y_pos"} |-> item[k]]

\* [block for page in processed_pages for block in page.get('text_blocks', [])]
RECURSIVE AllBlocks(_)
AllBlocks(pages) ==
    IF pages = <<>> THEN <<>>
    ELSE Get(Head(pages), "text_blocks", <<>>) \o AllBlocks(Tail(pages))

\* processed_pages[0].get('height', 842)
PageHeight(pages) == Get(pages[1], "height", 842)

\* processed_pages[0].get('width', 595)
PageWidth(pages) == Get(pages[1], "width", 595)

----------------------------------------------------------------------------
(* HierarchyBuilder.build, step by step *)

\* build, lines 127-128: no pages
BuildNoPages ==
    /\ pc = "build"
    /\ processed_pages = <<>>
    /\ result' = [status  |-> "returned",
                  title   |-> NoContentFound,
                  outline |-> <<>>]
    /\ pc' = "returned"
    /\ UNCHANGED <<processed_pages, core_content_blocks, title,
                   heading_candidates, outline, groupVars>>

\* build, lines 130-143: the core content, the title, the heading candidates
BuildClassify ==
    /\ pc = "build"
    /\ processed_pages # <<>>
    /\ LET all_blocks == AllBlocks(processed_pages)
           page_height == PageHeight(processed_pages)
           page_width == PageWidth(processed_pages)
           core == SelectSeq(all_blocks,
                             LAMBDA b : ~IsHeaderOrFooter(b, page_height))
           t == ExtractTitle(core, page_width)
           block_features == [i \in DOMAIN core |->
                                 GetBlockFeatures(core[i], page_width)]
           potential == SelectSeq(block_features, IsPotentialHeading)
       IN  /\ core_content_blocks' = core
           /\ title' = t
           /\ heading_candidates' = SelectSeq(potential, LAMBDA h : h.text # t)
    /\ pc' = "assign_levels"
    /\ UNCHANGED <<processed_pages, outline, result, groupVars>>

\* build, line 146
BuildAssignLevels ==
    /\ pc = "assign_levels"
    /\ outline' \in AssignHeadingLevels(heading_candidates)
    /\ pc' = "sort"
    /\ UNCHANGED <<processed_pages, core_content_blocks, title,
                   heading_candidates, result, groupVars>>

\* build, line 147: the sort evaluates x['y_pos'] for every item, and raises
\* KeyError when an item has no such key
BuildSort ==
    /\ pc = "sort"
    /\ IF \A i \in DOMAIN outline : "y_pos" \in DOMAIN outline[i]
       THEN /\ outline' = SortOutline(outline)
            /\ pc' = "cleanup"
            /\ UNCHANGED result
       ELSE /\ result' = [status |-> "raised", exception |-> "KeyError"]
            /\ pc' = "raised"
            /\ UNCHANGED outline
    /\ UNCHANGED <<processed_pages, core_content_blocks, title,
                   heading_candidates, groupVars>>

\* build, lines 150-153.  The variable outline keeps the sorted list as it is
\* before the temporary keys are deleted; result.outline is the list after.
BuildReturn ==
    /\ pc = "cleanup"
    /\ result' = [status  |-> "returned",
                  title   |-> StrStrip(ReplaceNewline(title)),
                  outline |-> [i \in DOMAIN outline |-> DelYPos(outline[i])]]
    /\ pc' = "returned"
    /\ UNCHANGED <<processed_pages, core_content_blocks, title,
                   heading_candidates, outline, groupVars>>

----------------------------------------------------------------------------
(* The documents build is run on *)

\* most blocks of a document drawn from the title, zone or text families
MaxBlocks == 3

\* most blocks of a document drawn from the level family
MaxLevelBlocks == 4

Arial == Str(<<"A","r","i","a","l">>)

ArialBold == Str(<<"A","r","i","a","l","-","B","o","l","d">>)

ArialBlack == Str(<<"A","r","i","a","l","-","B","L","A","C","K">>)

\* n times the word c, joined by single spaces
RECURSIVE WordsOf(_, _)
WordsOf(c, n) ==
    IF n <= 0 THEN <<>>
    ELSE IF n = 1 THEN <<c>>
    ELSE <<c, " ">> \o WordsOf(c, n - 1)

\* a block as _group_words_into_blocks emits it; the box is 100 wide
Block(text, x0, top, font_name, font_size, page) ==
    [text      |-> text,
     bbox      |-> <<x0, top, x0 + 100, top + font_size>>,
     font_name |-> font_name,
     font_size |-> font_size,
     page_num  |-> page]

\* On a page 600 wide: x0 = 250 is centred, x0 = 50 is not, and x0 = 340 puts
\* the centre at exactly 15% of the width from the page centre.
\* Title family: long texts (never heading candidates) that differ in score,
\* position, page and length.
TitleBlocks ==
    { Block(Str(WordsOf("a", 15)), 250, 100, Arial, 12, 1),
      Block(Str(WordsOf("b", 15)), 50, 200, ArialBold, 15, 1),
      Block(Str(WordsOf("c", 15)), 340, 400, Arial, 18, 1),
      Block(Str(WordsOf("d", 15)), 250, 401, ArialBold, 18, 1),
      Block(Str(WordsOf("e", 15)), 250, 100, ArialBold, 18, 2),
      Block(Str(<<" ">>), 250, 100, ArialBold, 18, 1),
      Block(Str(WordsOf("f", 26)), 250, 100, ArialBold, 18, 1),
      Block(Str(WordsOf("g", 25)), 50, 100, Arial, 10, 1),
      Block(Str(WordsOf("h", 15)), 250, 30, ArialBold, 18, 1),
      Block(Str(<<"A", " ", "B">>), 250, 300, ArialBlack, 12, 1) }

\* Zone family: short bold texts at tops around the header and footer bands
\* of pages 500, 842 and 1000 high.
ZoneBlocks ==
    { Block(Str(<<"A">>), 50, 30, ArialBold, 12, 1),
      Block(Str(<<"B">>), 50, 40, ArialBold, 12, 1),
      Block(Str(<<"C">>), 50, 60, ArialBold, 12, 2),
      Block(Str(<<"D">>), 50, 100, ArialBold, 12, 1),
      Block(Str(<<"E">>), 50, 460, ArialBold, 12, 2),
      Block(Str(<<"F">>), 50, 470, ArialBold, 12, 2),
      Block(Str(<<"G">>), 50, 950, ArialBold, 12, 1) }

\* Level family: heading candidates of five font sizes on two pages, one of
\* them placed where it can be the title.
LevelBlocks ==
    { Block(Str(<<"A">>), 50, 420, ArialBold, 18, 1),
      Block(Str(<<"B">>), 50, 200, ArialBold, 15, 2),
      Block(Str(<<"C">>), 50, 440, ArialBold, 12, 1),
      Block(Str(<<"D">>), 50, 150, ArialBold, 10, 2),
      Block(Str(<<"E">>), 50, 100, ArialBold, 12, 2),
      Block(Str(<<"F">>), 50, 300, Arial, 16, 1) }

\* Text family: texts that differ in whitespace, case, digits, numbering and
\* dots.
TextBlocks ==
    { Block(Str(<<"A", "\n", "B">>), 250, 100, Arial, 18, 1),
      Block(Str(<<"A", " ", "B">>), 50, 200, Arial, 12, 1),
      Block(Str(<<"1", ".", " ", "A">>), 50, 300, Arial, 10, 1),
      Block(Str(<<"1", ".", "2", " ", "A">>), 50, 350, Arial, 10, 1),
      Block(Str(<<"1", ".", "2", " ">> \o WordsOf("a", 13)), 50, 410, Arial, 10, 1),
      Block(Str(<<"1", ".", "2", " ">> \o WordsOf("a", 14)), 50, 420, Arial, 10, 1),
      Block(Str(<<"1", "2">>), 50, 430, ArialBold, 10, 1),
      Block(Str(<<"1", " ", "A", " ", ".", ".", ".", ".", "5">>), 50, 440, Arial, 10, 1),
      Block(UntitledDocument, 50, 450, ArialBold, 10, 1),
      Block(Str(<<" ", "a", " ", "b", " ">>), 50, 460, ArialBold, 10, 1) }

\* the sequences of at most n elements of S
SeqsUpTo(S, n) == UNION {[1..k -> S] : k \in 0..n}

\* what process_pdf records of a page's size; build also accepts a page that
\* has no size
PageDims ==
    { [present |-> TRUE, width |-> 600, height |-> 1000],
      [present |-> TRUE, width |-> 600, height |-> 500],
      [present |-> FALSE] }

PageOf(page, text_blocks, dims) ==
    IF dims.present
    THEN [page_num    |-> page,
          width       |-> dims.width,
          height      |-> dims.height,
          text_blocks |-> text_blocks]
    ELSE [page_num    |-> page,
          text_blocks |-> text_blocks]

\* the pages holding the blocks bs, each block on the page it names; a
\* second page exists when a block names it
PagesOf(bs, dims1, dims2) ==
    LET first == PageOf(1, SelectSeq(bs, LAMBDA b : b.page_num = 1), dims1)
        second == PageOf(2, SelectSeq(bs, LAMBDA b : b.page_num = 2), dims2)
    IN  IF \E i \in DOMAIN bs : bs[i].page_num = 2
        THEN <<first, second>>
        ELSE <<first>>

Standard == [present |-> TRUE, width |-> 600, height |-> 1000]

Documents ==
    {<<>>}
    \cup {PagesOf(bs, Standard, Standard) : bs \in SeqsUpTo(TitleBlocks, MaxBlocks)}
    \cup {PagesOf(bs, Standard, Standard) : bs \in SeqsUpTo(TextBlocks, MaxBlocks)}
    \cup {PagesOf(bs, Standard, Standard) :
             bs \in SeqsUpTo(LevelBlocks, MaxLevelBlocks)}
    \cup {PagesOf(bs, d[1], d[2]) :
             bs \in SeqsUpTo(ZoneBlocks, MaxBlocks),
             d \in {dd \in PageDims \X PageDims : dd[1] # dd[2]}}

Init ==
    /\ pc = "build"
    /\ processed_pages \in Documents
    /\ core_content_blocks = <<>>
    /\ title = <<>>
    /\ heading_candidates = <<>>
    /\ outline = <<>>
    /\ result = [status |-> "none"]
    /\ words = <<>>
    /\ page_num = 1
    /\ sorted_words = <<>>
    /\ lines = <<>>
    /\ blocks = <<>>

Next ==
    \/ BuildNoPages
    \/ BuildClassify
    \/ BuildAssignLevels
    \/ BuildSort
    \/ BuildReturn

Spec == Init /\ [][Next]_vars

----------------------------------------------------------------------------
(* pdf_processor.py.  Lengths and font sizes are in 64ths of a unit. *)

\* a < b for two keys, tuples of numbers of one length, as Python compares
\* tuples
RECURSIVE KeyLess(_, _)
KeyLess(a, b) ==
    IF a = <<>> THEN FALSE
    ELSE Head(a) < Head(b) \/ (Head(a) = Head(b) /\ KeyLess(Tail(a), Tail(b)))

\* sorted(items, key=...), keys[i] being the key of items[i]: a stable sort
StableSort(items, keys) ==
    LET Before(i, j) ==
            KeyLess(keys[i], keys[j]) \/ (~KeyLess(keys[j], keys[i]) /\ i <= j)
        Pos(i) == Cardinality({j \in DOMAIN items : Before(j, i)})
    IN  [p \in DOMAIN items |-> items[CHOOSE i \in DOMAIN items : Pos(i) = p]]

\* sorted(words, key=lambda w: (w['top'], w['x0']))
SortByTopX0(ws) == StableSort(ws, [i \in DOMAIN ws |-> <<ws[i].top, ws[i].x0>>])

\* sorted(current_line, key=lambda w: w['x0'])
SortByX0(ws) == StableSort(ws, [i \in DOMAIN ws |-> <<ws[i].x0>>])

\* abs(word['top'] - current_line[-1]['top']) < 2
SameLine(word, current_line) ==
    Abs(word.top - current_line[Len(current_line)].top) < 2 * 64

\* lines 75-82: the loop over sorted_words[1:], then the last line
RECURSIVE AssembleLines(_, _, _)
AssembleLines(rest, current_line, done) ==
    IF rest = <<>> THEN Append(done, SortByX0(current_line))
    ELSE IF SameLine(Head(rest), current_line)
    THEN AssembleLines(Tail(rest), Append(current_line, Head(rest)), done)
    ELSE AssembleLines(Tail(rest), <<Head(rest)>>,
                       Append(done, SortByX0(current_line)))

\* a faulty variant of IsNewBlock that also splits at a gap of exactly 1.6
\* font sizes
IsNewBlockAtGap(line, prev_line) ==
    \/ (line[1].top - prev_line[1].top) * 10 >= prev_line[1].size * 16
    \/ line[1].fontname # prev_line[1].fontname
    \/ Abs(line[1].size - prev_line[1].size) >= 64

\* lines 91-96: is_new_block
IsNewBlock(line, prev_line) ==
    LET vertical_gap == line[1].top - prev_line[1].top
        font_name_match == line[1].fontname = prev_line[1].fontname
        font_size_match == Abs(line[1].size - prev_line[1].size) < 64
    IN  \/ vertical_gap * 10 > prev_line[1].size * 16
        \/ ~font_name_match
        \/ ~font_size_match

\* " ".join(parts)
RECURSIVE JoinSpace(_)
JoinSpace(parts) ==
    IF parts = <<>> THEN <<>>
    ELSE IF Len(parts) = 1 THEN parts[1]
    ELSE parts[1] \o <<32>> \o JoinSpace(Tail(parts))

\* [w for ln in current_block_lines for w in ln]
RECURSIVE Flatten(_)
Flatten(lns) == IF lns = <<>> THEN <<>> ELSE Head(lns) \o Flatten(Tail(lns))

MinOf(S) == CHOOSE x \in S : \A y \in S : x <= y

MaxOf(S) == CHOOSE x \in S : \A y \in S : y <= x

\* _unify_bbox
UnifyBbox(bboxes) ==
    IF bboxes = <<>> THEN <<0, 0, 0, 0>>
    ELSE <<MinOf({bboxes[i][1] : i \in DOMAIN bboxes}),
           MinOf({bboxes[i][2] : i \in DOMAIN bboxes}),
           MaxOf({bboxes[i][3] : i \in DOMAIN bboxes}),
           MaxOf({bboxes[i][4] : i \in DOMAIN bboxes})>>

\* round(size, 2) of a size in 64ths, in hundredths: the hundredth nearest
\* to the size; a size half-way between two hundredths (x.125, x.375, ...)
\* goes to the even one
Round2(size) ==
    LET down == (size * 100) \div 64
        r == (size * 100) % 64
    IN  IF 2 * r < 64 THEN down
        ELSE IF 2 * r > 64 THEN down + 1
        ELSE IF down % 2 = 0 THEN down ELSE down + 1

\* lines 99-109 and 115-125: the block of current_block_lines
MakeBlock(current_block_lines, page) ==
    LET text == JoinSpace([i \in DOMAIN current_block_lines |->
                   JoinSpace([j \in DOMAIN current_block_lines[i] |->
                                 current_block_lines[i][j].text])])
        all_words_in_block == Flatten(current_block_lines)
        bboxes == [i \in DOMAIN all_words_in_block |->
                      <<all_words_in_block[i].x0, all_words_in_block[i].top,
                        all_words_in_block[i].x1, all_words_in_block[i].bottom>>]
    IN  [text      |-> text,
         bbox      |-> UnifyBbox(bboxes),
         font_name |-> all_words_in_block[1].fontname,
         font_size |-> Round2(all_words_in_block[1].size),
         page_num  |-> page]

\* lines 87-125: the loop over lines[1:], then the last block
RECURSIVE AssembleBlocks(_, _, _, _)
AssembleBlocks(rest, current_block_lines, done, page) ==
    IF rest = <<>> THEN Append(done, MakeBlock(current_block_lines, page))
    ELSE IF IsNewBlock(Head(rest), current_block_lines[Len(current_block_lines)])
    THEN AssembleBlocks(Tail(rest), <<Head(rest)>>,
                        Append(done, MakeBlock(current_block_lines, page)), page)
    ELSE AssembleBlocks(Tail(rest), Append(current_block_lines, Head(rest)),
                        done, page)

\* _group_words_into_blocks, lines 68-69: no words
GroupNoWords ==
    /\ pc = "group"
    /\ words = <<>>
    /\ blocks' = <<>>
    /\ pc' = "grouped"
    /\ UNCHANGED <<words, page_num, sorted_words, lines, buildVars>>

\* _group_words_into_blocks, lines 72-82: words into lines
GroupLines ==
    /\ pc = "group"
    /\ words # <<>>
    /\ sorted_words' = SortByTopX0(words)
    /\ lines' = AssembleLines(Tail(sorted_words'), <<Head(sorted_words')>>, <<>>)
    /\ pc' = "lines"
    /\ UNCHANGED <<words, page_num, blocks, buildVars>>

\* _group_words_into_blocks, lines 85-127: lines into blocks
GroupBlocks ==
    /\ pc = "lines"
    /\ blocks' = IF lines = <<>> THEN <<>>
                 ELSE AssembleBlocks(Tail(lines), <<Head(lines)>>, <<>>, page_num)
    /\ pc' = "grouped"
    /\ UNCHANGED <<words, page_num, sorted_words, lines, buildVars>>

\* most words on a page
MaxWords == 4

\* a word as extract_words gives it; the box is 40 units wide
Word(text, x0, top, fontname, size) ==
    [text     |-> text,
     x0       |-> x0,
     top      |-> top,
     x1       |-> x0 + 40 * 64,
     bottom   |-> top + size,
     fontname |-> fontname,
     size     |-> size]

\* Words at tops 100, 100.5, 101.5, 103, 102, 140, 156, 172.5 and 110, of
\* sizes 16, 17, 16 63/64, 10, 10 1/8 (half-way between 10.12 and 10.13),
\* 11 and 16 1/64.
WordPool ==
    { Word(Str(<<"C", "h">>), 640, 6400, ArialBold, 1024),
      Word(Str(<<"O", "n", "e">>), 3840, 6432, ArialBold, 1024),
      Word(Str(<<"b">>), 320, 6496, ArialBold, 1024),
      Word(Str(<<"c">>), 7040, 6592, ArialBold, 1088),
      Word(Str(<<"z">>), 640, 6528, ArialBold, 1087),
      Word(Str(<<"R", "e", "g">>), 640, 8960, Arial, 640),
      Word(Str(<<"x">>), 640, 9984, Arial, 648),
      Word(Str(<<"y">>), 640, 11040, Arial, 704),
      Word(Str(<<"r">>), 640, 7040, Arial, 1025) }

InitGroup ==
    /\ pc = "group"
    /\ words \in SeqsUpTo(WordPool, MaxWords)
    /\ page_num \in {1, 2}
    /\ sorted_words = <<>>
    /\ lines = <<>>
    /\ blocks = <<>>
    /\ processed_pages = <<>>
    /\ core_content_blocks = <<>>
    /\ title = <<>>
    /\ heading_candidates = <<>>
    /\ outline = <<>>
    /\ result = [status |-> "none"]

NextGroup ==
    \/ GroupNoWords
    \/ GroupLines
    \/ GroupBlocks

SpecGroup == InitGroup /\ [][NextGroup]_vars

----------------------------------------------------------------------------
(* Claims about HierarchyBuilder.build, checked under Spec *)

Levels == {"H1", "H2", "H3"}

Built == pc \in {"assign_levels", "sort", "cleanup", "returned", "raised"}

\* C1: for every page list build raises no exception, and returns a title and
\* an outline whose entries each have a level among H1, H2, H3, a text and a
\* page number.
C1_BuildNeverRaises ==
    /\ pc # "raised"
    /\ pc = "returned" =>
        /\ result.status = "returned"
        /\ DOMAIN result = {"status", "title", "outline"}
        /\ \A i \in DOMAIN result.outline :
            /\ {"level", "text", "page"} \subseteq DOMAIN result.outline[i]
            /\ result.outline[i].level \in Levels
            /\ result.outline[i].page \in Nat

\* C2: when exactly one heading candidate remains after the filtering, the
\* detection and the removal of the title, build returns an outline of exactly
\* one entry: level H1, the candidate's text and its page number.
C2_SingleCandidateOneH1 ==
    (pc \in {"returned", "raised"} /\ Len(heading_candidates) = 1) =>
        /\ result.status = "returned"
        /\ result.outline =
              <<[level |-> "H1",
                 text  |-> heading_candidates[1].text,
                 page  |-> heading_candidates[1].original_block.page_num]>>

\* how often the entry of candidate h occurs in the sorted outline
EntryCount(h) ==
    Cardinality({i \in DOMAIN outline :
        /\ outline[i].text = h.text
        /\ outline[i].page = h.original_block.page_num
        /\ outline[i].y_pos = h.original_block.bbox[2]})

CandidateCount(h) ==
    Cardinality({i \in DOMAIN heading_candidates :
        /\ heading_candidates[i].text = h.text
        /\ heading_candidates[i].original_block.page_num = h.original_block.page_num
        /\ heading_candidates[i].original_block.bbox[2] = h.original_block.bbox[2]})

\* C3: in every result build returns, the outline entries are the heading
\* candidates ordered by page number and, within a page, by the top of their
\* block; and each returned entry has exactly the fields level, text, page.
C3_OutlineSortedAndStripped ==
    pc = "returned" =>
        /\ Len(result.outline) = Len(outline)
        /\ Len(outline) = Len(heading_candidates)
        /\ \A i \in DOMAIN heading_candidates :
              EntryCount(heading_candidates[i]) = CandidateCount(heading_candidates[i])
        /\ \A i, j \in DOMAIN outline :
              i < j => \/ outline[i].page < outline[j].page
                       \/ /\ outline[i].page = outline[j].page
                          /\ outline[i].y_pos <= outline[j].y_pos
        /\ \A i \in DOMAIN outline :
              /\ DOMAIN result.outline[i] = {"level", "text", "page"}
              /\ result.outline[i].level = outline[i].level
              /\ result.outline[i].text = outline[i].text
              /\ result.outline[i].page = outline[i].page

\* a returned outline of two pages whose candidates were found out of order
C3_Witness ==
    /\ pc = "returned"
    /\ \E i, j \in DOMAIN result.outline :
          result.outline[i].page # result.outline[j].page
    /\ \E i, j \in DOMAIN heading_candidates :
          /\ i < j
          /\ heading_candidates[i].original_block.page_num
                = heading_candidates[j].original_block.page_num
          /\ heading_candidates[i].original_block.bbox[2]
                > heading_candidates[j].original_block.bbox[2]

\* C4: in every result build returns, the title differs from the text of every
\* outline entry.
C4_TitleNotInOutline ==
    pc = "returned" =>
        \A i \in DOMAIN result.outline : result.outline[i].text # result.title

\* the header zone and the footer zone of the claim: tops under 8% and over
\* 92% of the height h
InHeaderZone(top, h) == 100 * top < 8 * h

InFooterZone(top, h) == 100 * top > 92 * h

FirstPageHeight ==
    IF "height" \in DOMAIN processed_pages[1]
    THEN processed_pages[1].height ELSE 842

InZone(b) ==
    \/ InHeaderZone(b.bbox[2], FirstPageHeight)
    \/ InFooterZone(b.bbox[2], FirstPageHeight)

\* C5: a block whose top lies in the header or footer zone of the first page's
\* height, on any page, is not among the blocks the title is chosen from, is
\* no heading candidate and gives no outline entry.
C5_ZoneBlocksExcluded ==
    (Built /\ processed_pages # <<>>) =>
        LET all_blocks == AllBlocks(processed_pages)
        IN  /\ \A i \in DOMAIN all_blocks :
                  InZone(all_blocks[i]) =>
                      /\ all_blocks[i] \notin Range(core_content_blocks)
                      /\ \A k \in DOMAIN heading_candidates :
                            heading_candidates[k].original_block # all_blocks[i]
            /\ title = ExtractTitle(SelectSeq(all_blocks, LAMBDA b : ~InZone(b)),
                                    PageWidth(processed_pages))
            /\ \A k \in DOMAIN outline :
                  "y_pos" \in DOMAIN outline[k] =>
                      /\ ~InHeaderZone(outline[k].y_pos, FirstPageHeight)
                      /\ ~InFooterZone(outline[k].y_pos, FirstPageHeight)

\* a returned outline of a document whose second page holds a block that is in
\* a zone of the first page's height and in no zone of its own page's height
C5_Witness ==
    /\ pc = "returned"
    /\ Len(processed_pages) = 2
    /\ Len(result.outline) >= 2
    /\ "height" \in DOMAIN processed_pages[2]
    /\ \E i \in DOMAIN processed_pages[2].text_blocks :
          LET b == processed_pages[2].text_blocks[i]
          IN  /\ InZone(b)
              /\ ~InHeaderZone(b.bbox[2], processed_pages[2].height)
              /\ ~InFooterZone(b.bbox[2], processed_pages[2].height)

\* the number of distinct candidate font sizes larger than s, plus one
SizeRank(s) ==
    1 + Cardinality({t \in UniqueSizes(heading_candidates) : t > s})

\* C6: with two or more candidates of d <= 3 distinct font sizes, every
\* candidate of the largest size gets H1, of the second largest H2, of the
\* third largest H3 (so d levels are used, and H1 alone when d = 1); whatever
\* d is, no level besides H1, H2, H3 is given.
C6_LevelsBySizeRank ==
    /\ (pc = "sort" /\ Len(heading_candidates) >= 2) =>
          /\ Len(outline) = Len(heading_candidates)
          /\ Cardinality(UniqueSizes(heading_candidates)) <= 3 =>
                \A i \in DOMAIN outline :
                    outline[i].level
                       = <<"H1", "H2", "H3">>[SizeRank(heading_candidates[i].font_size)]
    /\ pc \in {"sort", "cleanup"} =>
          \A i \in DOMAIN outline : outline[i].level \in Levels
    /\ pc = "returned" =>
          \A i \in DOMAIN result.outline : result.outline[i].level \in Levels

\* four candidates of three distinct sizes have been given their levels
C6_Witness ==
    /\ pc = "sort"
    /\ Len(heading_candidates) = 4
    /\ Cardinality(UniqueSizes(heading_candidates)) = 3
    /\ {outline[i].level : i \in DOMAIN outline} = Levels

\* candidates of more than three distinct sizes have been given their levels
C6_WitnessCapped ==
    /\ pc = "sort"
    /\ Cardinality(UniqueSizes(heading_candidates)) > 3
    /\ {outline[i].level : i \in DOMAIN outline} = Levels

\* the title score of the claim as a fraction of 100: the font size, times
\* 1.5 when the centre of the box is within 15% of the page width of the page
\* centre, times 1.2 when the font name marks the block bold
ClaimScore(b, w) ==
    LET size == IF "font_size" \in DOMAIN b THEN b.font_size ELSE 0
        off == b.bbox[1] + b.bbox[3] - w
        centred == 100 * (IF off < 0 THEN -off ELSE off) < 2 * 15 * w
    IN  size * (IF centred THEN 150 ELSE 100)
             * (IF IsBoldName(b.font_name) THEN 120 ELSE 100)

\* the title as build returns it: trimmed, newlines as spaces
ClaimTitleText(text) == StrStrip(ReplaceNewline(text))

\* the blocks (by position in the document) the title is chosen from: not in
\* a zone, on page 1, top <= 400, at most 25 words, and - when nonBlank -
\* with text that is not only whitespace
ClaimTitlePool(nonBlank) ==
    LET all_blocks == AllBlocks(processed_pages)
    IN  {i \in DOMAIN all_blocks :
            /\ ~InZone(all_blocks[i])
            /\ all_blocks[i].page_num = 1
            /\ all_blocks[i].bbox[2] <= 400
            /\ SplitCount(all_blocks[i].text) <= 25
            /\ nonBlank => \E k \in DOMAIN all_blocks[i].text :
                               ~IsSpaceChar(all_blocks[i].text[k])}

\* the title of the claim for the pool: the first block of the highest score
ClaimTitle(pool) ==
    LET all_blocks == AllBlocks(processed_pages)
        w == PageWidth(processed_pages)
    IN  IF pool = {} THEN UntitledDocument
        ELSE LET best == CHOOSE i \in pool : \A j \in pool :
                            /\ ClaimScore(all_blocks[j], w) <= ClaimScore(all_blocks[i], w)
                            /\ j < i => ClaimScore(all_blocks[j], w)
                                           < ClaimScore(all_blocks[i], w)
             IN  ClaimTitleText(all_blocks[best].text)

\* C7 as claimed: for a document that has pages, the returned title is the
\* text of the first highest-scoring block among the blocks outside the zones
\* on page 1 with top <= 400 and at most 25 words, and "Untitled Document"
\* when there is none.
C7_TitleAmongAllBlocks ==
    (pc = "returned" /\ processed_pages # <<>>) =>
        result.title = ClaimTitle(ClaimTitlePool(FALSE))

\* C7 as amended: the same, among the blocks whose text is not blank.
C7_TitleIsFirstBestNonBlank ==
    (pc = "returned" /\ processed_pages # <<>>) =>
        result.title = ClaimTitle(ClaimTitlePool(TRUE))

\* a title returned where two blocks tie for the highest score, one earning
\* it by being centred and the other by being bold, beside a blank block
C7_Witness ==
    /\ pc = "returned"
    /\ processed_pages # <<>>
    /\ LET all_blocks == AllBlocks(processed_pages)
           w == PageWidth(processed_pages)
           pool == ClaimTitlePool(TRUE)
       IN  /\ ClaimTitlePool(FALSE) # pool
           /\ \E i, j \in pool :
                 /\ i < j
                 /\ ClaimScore(all_blocks[i], w) = ClaimScore(all_blocks[j], w)
                 /\ all_blocks[i].font_size # all_blocks[j].font_size
                 /\ \A k \in pool :
                       ClaimScore(all_blocks[k], w) <= ClaimScore(all_blocks[i], w)
                 /\ result.title = ClaimTitleText(all_blocks[i].text)
                 /\ result.title # ClaimTitleText(all_blocks[j].text)

\* a numeric outline prefix as the claim has it: digits, any number of
\* ".digits" groups, possibly a closing dot, then whitespace ("1. A",
\* "1.2.3 A")
ClaimNumberPrefix(text) ==
    LET afterGroups == SkipDotGroups(text, SkipDigits(text, 1))
        afterDot == IF afterGroups <= Len(text) /\ text[afterGroups] = 46
                    THEN afterGroups + 1 ELSE afterGroups
    IN  /\ Len(text) > 0
        /\ IsDecimalChar(text[1])
        /\ afterDot <= Len(text)
        /\ IsSpaceChar(text[afterDot])

\* C8: a block of the core content that is not disqualified (not empty, at
\* most 20 words, no table-of-contents entry, not only digits), has fewer than
\* 15 words and starts with a numeric outline prefix is a heading candidate
\* (or was removed from the candidates as the title), whatever its font.
C8_NumberedBlockIsCandidate ==
    (Built /\ processed_pages # <<>>) =>
        \A i \in DOMAIN core_content_blocks :
            LET text == StrStrip(core_content_blocks[i].text)
            IN  (/\ text # <<>>
                 /\ SplitCount(text) <= 20
                 /\ ~IsTocEntry(text)
                 /\ ~StrIsDigit(text)
                 /\ SplitCount(text) < 15
                 /\ ClaimNumberPrefix(text))
                => \/ text = title
                   \/ \E k \in DOMAIN heading_candidates :
                         heading_candidates[k].original_block = core_content_blocks[i]

----------------------------------------------------------------------------
(* Claims about PDFProcessor._group_words_into_blocks, checked under         *)
(* SpecGroup                                                                 *)

\* the top of the fragment that opened the line: the least top in it
LineFirstTop(line) == MinOf({line[i].top : i \in DOMAIN line})

\* C9: a fragment joins the current line exactly when its top is less than 2
\* units from the top of the line's first fragment, so in every line all tops
\* are less than 2 units from the top of the line's first fragment.
C9_LineWithinTwoOfFirst ==
    pc \in {"lines", "grouped"} =>
        \A k \in DOMAIN lines : \A i \in DOMAIN lines[k] :
            lines[k][i].top - LineFirstTop(lines[k]) < 2 * 64

\* the claim's condition for a line to start a new block after prev
ClaimStartsBlock(prev, line) ==
    \/ 10 * (line[1].top - prev[1].top) > 16 * prev[1].size
    \/ line[1].fontname # prev[1].fontname
    \/ line[1].size - prev[1].size >= 64
    \/ prev[1].size - line[1].size >= 64

\* the lines that start a block under the claim
ClaimBlockStarts ==
    {1} \cup {k \in 2..Len(lines) : ClaimStartsBlock(lines[k - 1], lines[k])}

\* the words of the n-th block under the claim: the lines from its start up
\* to the next start
ClaimBlockWords(n) ==
    LET start == CHOOSE k \in ClaimBlockStarts :
                    Cardinality({j \in ClaimBlockStarts : j <= k}) = n
        later == {k \in ClaimBlockStarts : k > start}
        end == IF later = {} THEN Len(lines) ELSE MinOf(later) - 1
    IN  Flatten(SubSeq(lines, start, end))

\* the block size, in hundredths, is the word's size, in 64ths
SameSize(block_size, word_size) == 64 * block_size = 100 * word_size

\* the block size is a hundredth nearest to the word's size: no further from
\* it than half a hundredth
RoundedSize(block_size, word_size) ==
    /\ 2 * (64 * block_size - 100 * word_size) <= 64
    /\ 2 * (100 * word_size - 64 * block_size) <= 64

\* the block has the text, box, font and page the claim gives the words ws;
\* its font size is the first word's size, as it is or rounded
ClaimBlockIs(b, ws, rounded) ==
    /\ b.text = JoinSpace([i \in DOMAIN ws |-> ws[i].text])
    /\ b.font_name = ws[1].fontname
    /\ IF rounded THEN RoundedSize(b.font_size, ws[1].size)
                  ELSE SameSize(b.font_size, ws[1].size)
    /\ b.page_num = page_num
    /\ \A i \in DOMAIN ws :
          /\ b.bbox[1] <= ws[i].x0
          /\ b.bbox[2] <= ws[i].top
          /\ b.bbox[3] >= ws[i].x1
          /\ b.bbox[4] >= ws[i].bottom

\* every word of the input is in exactly one line, and the lines in exactly
\* one block each
ClaimAllWordsKept ==
    /\ \A i \in DOMAIN words :
          Cardinality({j \in DOMAIN words : words[j] = words[i]})
             = Cardinality({j \in DOMAIN Flatten(lines) : Flatten(lines)[j] = words[i]})
    /\ Len(Flatten(lines)) = Len(words)

\* C10 as claimed: a line starts a new block exactly when the gap to the
\* first fragment of the previous line exceeds 1.6 times its font size, or
\* the font name differs, or the size differs by 1 or more; every fragment is
\* in exactly one block; a block's text is its words joined by single spaces
\* in order; its font name and size are those of its first word.
C10_BlocksWithFirstWordSize ==
    (pc = "grouped" /\ words # <<>>) =>
        /\ ClaimAllWordsKept
        /\ Len(blocks) = Cardinality(ClaimBlockStarts)
        /\ \A n \in DOMAIN blocks :
              ClaimBlockIs(blocks[n], ClaimBlockWords(n), FALSE)

\* C10 as amended: the same, with the font size that of the first word
\* rounded to two decimals.
C10_BlocksWithRoundedSize ==
    (pc = "grouped" /\ words # <<>>) =>
        /\ ClaimAllWordsKept
        /\ Len(blocks) = Cardinality(ClaimBlockStarts)
        /\ \A n \in DOMAIN blocks :
              ClaimBlockIs(blocks[n], ClaimBlockWords(n), TRUE)

\* blocks emitted where one line joined its block at a gap of exactly 1.6
\* font sizes, another started a block by a change of font name alone, and the
\* first word of a block has a size that is no whole hundredth
C10_Witness ==
    /\ pc = "grouped"
    /\ Len(blocks) >= 2
    /\ \E k \in 1..(Len(lines) - 1) :
          /\ ~ClaimStartsBlock(lines[k], lines[k + 1])
          /\ 10 * (lines[k + 1][1].top - lines[k][1].top) = 16 * lines[k][1].size
    /\ \E k \in 1..(Len(lines) - 1) :
          /\ lines[k + 1][1].fontname # lines[k][1].fontname
          /\ 10 * (lines[k + 1][1].top - lines[k][1].top) <= 16 * lines[k][1].size
          /\ lines[k + 1][1].size - lines[k][1].size < 64
          /\ lines[k][1].size - lines[k + 1][1].size < 64
    /\ \E n \in DOMAIN blocks :
          ~SameSize(blocks[n].font_size, ClaimBlockWords(n)[1].size)

====
